---- MODULE Spec2Model ----
(***************************************************************************)
(* Model of ResearchCollaborationRecommender (src/recommender.py).         *)
(*                                                                         *)
(* Strings are sequences of one-character strings, so that split(','),     *)
(* strip() and substring containment are computed, not assumed.            *)
(* Row indices are 1-based here (0-based in the source).                   *)
(***************************************************************************)
EXTENDS Integers, Sequences, FiniteSets, TLC

VARIABLES researchers, publications, coauthor_matrix, tfidf_matrix,
          researcher_ids, ret

vars == <<researchers, publications, coauthor_matrix, tfidf_matrix,
          researcher_ids, ret>>

----------------------------------------------------------------------------
(* Bounds of the model *)

\* most publications in a publication table
MaxPubs == 2
\* largest top_n passed to recommend_collaborators
MaxTopN == 3
\* a cosine similarity is a multiple of 1/SimScale
SimScale == 1000

\* 1e-6, the epsilon of the min-max normalisation, is 1/EpsDen
EpsDen == 1000000

----------------------------------------------------------------------------
(* Strings *)

Al  == <<"a", "l">>
Ali == <<"a", "l", "i">>
Bo  == <<"b", "o">>
Cy  == <<"c", "y">>

\* str.join
RECURSIVE Join(_, _)
Join(list, sep) ==
    IF list = <<>> THEN <<>>
    ELSE IF Len(list) = 1 THEN list[1]
    ELSE list[1] \o sep \o Join(Tail(list), sep)

\* str.split(','): the pieces between the commas, "" gives [""]
RECURSIVE SplitFrom(_, _, _, _)
SplitFrom(s, i, cur, acc) ==
    IF i > Len(s) THEN Append(acc, cur)
    ELSE IF s[i] = "," THEN SplitFrom(s, i + 1, <<>>, Append(acc, cur))
    ELSE SplitFrom(s, i + 1, Append(cur, s[i]), acc)

Split(s) == SplitFrom(s, 1, <<>>, <<>>)

\* str.strip(): leading and trailing blanks removed
RECURSIVE LStrip(_)
LStrip(s) == IF s # <<>> /\ s[1] = " " THEN LStrip(Tail(s)) ELSE s

RECURSIVE RStrip(_)
RStrip(s) ==
    IF s # <<>> /\ s[Len(s)] = " " THEN RStrip(SubSeq(s, 1, Len(s) - 1)) ELSE s

Strip(s) == RStrip(LStrip(s))

\* Series.str.contains(name): name occurs somewhere in the raw text
StrContains(hay, needle) ==
    \E i \in 1..(Len(hay) - Len(needle) + 1) :
        SubSeq(hay, i, i + Len(needle) - 1) = needle

----------------------------------------------------------------------------
(* The two input tables (the columns the recommender reads) *)

Researcher(n, interests) == [name |-> n, research_interests |-> interests]

\* generate_data.py writes the author column as ", ".join(authors)
Publication(authorNames, kw) ==
    [authors |-> Join(authorNames, <<",", " ">>), keywords |-> kw]

\* the three researchers of the example scenario
ExampleResearchers ==
    << Researcher(Al, <<"genetics">>), Researcher(Bo, <<"ecology">>),
       Researcher(Cy, <<"neuroscience">>) >>

\* one name is a fragment of another
FragmentResearchers ==
    << Researcher(Al, <<"genetics">>), Researcher(Ali, <<"quantum">>),
       Researcher(Bo, <<"ecology">>) >>

\* two researchers with the same interests
PairResearchers ==
    << Researcher(Bo, <<"ecology">>), Researcher(Al, <<"ecology">>) >>

ResearcherTables == {ExampleResearchers, FragmentResearchers, PairResearchers}

\* the two publications of the example scenario
ExamplePublications ==
    << Publication(<<Al, Bo>>, <<"genetics", "ecology">>),
       Publication(<<Bo, Cy>>, <<"neuroscience", "ecology">>) >>

\* a publication that lists one author twice
RepeatedAuthor == Publication(<<Bo, Ali, Bo>>, <<"quantum">>)

PubPool == {ExamplePublications[1], ExamplePublications[2], RepeatedAuthor}

PublicationTables ==
    UNION { [1..n -> PubPool] : n \in 0..MaxPubs }

\* names a caller may query
QueryNames == {Al, Bo, Cy}

----------------------------------------------------------------------------
(* State *)

\* None; no loaded or built table is empty except a publication table, which
\* is None only together with researchers
None == <<>>
\* an empty dict
EmptyDict == [n \in {} |-> 0]

\* the outcome of a call that returns no list: "None", or the exception
Returned(kind) ==
    [kind |-> kind, name |-> <<>>, top_n |-> 0, recs |-> <<>>,
     content_sim |-> <<>>, collab_sim |-> <<>>]

Init ==
    /\ researchers = None
    /\ publications = None
    /\ coauthor_matrix = None
    /\ tfidf_matrix = None
    /\ researcher_ids = EmptyDict
    /\ ret = Returned("constructed")

----------------------------------------------------------------------------
(* load_data *)

\* {name: idx for idx, name in enumerate(names)}: a later row overwrites
IdMapping(table) ==
    [n \in {table[i].name : i \in 1..Len(table)} |->
        CHOOSE i \in 1..Len(table) :
            /\ table[i].name = n
            /\ \A j \in 1..Len(table) : table[j].name = n => j <= i]

load_data(rt, pt) ==
    /\ researchers' = rt
    /\ publications' = pt
    /\ researcher_ids' = IdMapping(rt)
    /\ ret' = Returned("None")
    /\ UNCHANGED <<coauthor_matrix, tfidf_matrix>>

----------------------------------------------------------------------------
(* build_coauthor_matrix *)

Zeros(n) == [i \in 1..n |-> [j \in 1..n |-> 0]]

\* [a.strip() for a in pub['authors'].split(',') if a.strip() in ids]
ResolvedAuthors(pub, ids) ==
    LET parts == Split(pub.authors)
    IN SelectSeq([k \in 1..Len(parts) |-> Strip(parts[k])],
                 LAMBDA a : a \in DOMAIN ids)

Increment(m, r, c) == [m EXCEPT ![r][c] = @ + 1]

\* PairStep without the mirrored increment
PairStepOneWay(m, idx1, idx2) == Increment(m, idx1, idx2)

\* the body of the two nested loops
PairStep(m, idx1, idx2) == Increment(Increment(m, idx1, idx2), idx2, idx1)

\* for i in range(len(authors)): for j in range(i+1, len(authors))
RECURSIVE AddPairs(_, _, _, _, _)
AddPairs(m, authors, ids, i, j) ==
    IF i > Len(authors) THEN m
    ELSE IF j > Len(authors) THEN AddPairs(m, authors, ids, i + 1, i + 2)
    ELSE AddPairs(PairStep(m, ids[authors[i]], ids[authors[j]]),
                  authors, ids, i, j + 1)

\* for _, pub in self.publications.iterrows()
RECURSIVE AddPublications(_, _, _, _)
AddPublications(m, pubs, ids, p) ==
    IF p > Len(pubs) THEN m
    ELSE AddPublications(AddPairs(m, ResolvedAuthors(pubs[p], ids), ids, 1, 2),
                         pubs, ids, p + 1)

CoauthorMatrix(rt, pubs, ids) == AddPublications(Zeros(Len(rt)), pubs, ids, 1)

build_coauthor_matrix ==
    IF researchers = None
    THEN \* len(None)
         /\ ret' = Returned("TypeError")
         /\ UNCHANGED <<researchers, publications, coauthor_matrix,
                        tfidf_matrix, researcher_ids>>
    ELSE /\ coauthor_matrix' =
                CoauthorMatrix(researchers, publications, researcher_ids)
         /\ ret' = Returned("None")
         /\ UNCHANGED <<researchers, publications, tfidf_matrix, researcher_ids>>

----------------------------------------------------------------------------
(* build_content_profiles *)

\* ' '.join(pubs['keywords']) of the publications selected by str.contains
RECURSIVE MatchedKeywords(_, _, _)
MatchedKeywords(pubs, n, p) ==
    IF p > Len(pubs) THEN <<>>
    ELSE (IF StrContains(pubs[p].authors, n) THEN pubs[p].keywords ELSE <<>>)
         \o MatchedKeywords(pubs, n, p + 1)

\* combined_text of one researcher, as its sequence of terms
CombinedText(r, pubs) ==
    r.research_interests \o MatchedKeywords(pubs, r.name, 1)

TextData(rt, pubs) == [i \in 1..Len(rt) |-> CombinedText(rt[i], pubs)]

Terms(text) == {text[k] : k \in 1..Len(text)}
TermCount(text, t) == Cardinality({k \in 1..Len(text) : text[k] = t})

\* every term of the tables, in the order of the columns
TermList == <<"ecology", "genetics", "neuroscience", "quantum">>

\* 100 * ln(k) for k = 1, 2, ..., rounded
LnCenti == <<0, 69, 110, 139, 161, 179, 195, 208>>

\* TfidfVectorizer's smoothed idf, ln((1 + n) / (1 + df)) + 1, in hundredths
Idf(n, df) == 100 + LnCenti[1 + n] - LnCenti[1 + df]

RECURSIVE DotTo(_, _, _)
DotTo(u, v, k) == IF k = 0 THEN 0 ELSE u[k] * v[k] + DotTo(u, v, k - 1)

\* the dot product of two rows
Dot(u, v) == DotTo(u, v, Len(u))

\* the sum of the cells of a row
RECURSIVE SumTo(_, _)
SumTo(u, k) == IF k = 0 THEN 0 ELSE u[k] + SumTo(u, k - 1)

\* the element of a one-element set; {F(x) : x \in {e}} computes e once
The(S) == CHOOSE x \in S : TRUE

\* the length of a row of non-negative cells, rounded up (it is at most the
\* sum of the cells)
Length(u) ==
    The({CHOOSE r \in 0..SumTo(v, Len(v)) :
             r * r >= Dot(v, v) /\ (r = 0 \/ (r - 1) * (r - 1) < Dot(v, v))
         : v \in {u}})

\* a row divided by its length (norm='l2'), in units of 1/SimScale, rounded
\* down; a row of zeros stays
ScaleRow(u) ==
    The({[k \in 1..Len(p[1]) |->
            IF p[2] = 0 THEN 0 ELSE (p[1][k] * SimScale) \div p[2]]
         : p \in {<<u, Length(u)>>}})

\* tf * idf of the terms of document i
RawRow(text_data, i) ==
    [k \in 1..Len(TermList) |->
        TermCount(text_data[i], TermList[k])
        * Idf(Len(text_data),
              Cardinality({j \in 1..Len(text_data) :
                             TermList[k] \in Terms(text_data[j])}))]

\* TfidfVectorizer().fit_transform(text_data): one row per document, one
\* column per term, tf * idf in each cell, each row scaled to length 1.  A
\* term of no document has tf = 0 everywhere and changes no product.
FitTransform(text_data) ==
    The({[i \in 1..Len(td) |-> ScaleRow(RawRow(td, i))] : td \in {text_data}})

build_content_profiles ==
    IF researchers = None
    THEN \* None.iterrows()
         /\ ret' = Returned("AttributeError")
         /\ UNCHANGED <<researchers, publications, coauthor_matrix,
                        tfidf_matrix, researcher_ids>>
    ELSE /\ tfidf_matrix' = FitTransform(TextData(researchers, publications))
         /\ ret' = Returned("None")
         /\ UNCHANGED <<researchers, publications, coauthor_matrix,
                        researcher_ids>>

----------------------------------------------------------------------------
(* recommend_collaborators *)

\* 0.6 and 0.4, in tenths
ContentWeight == 6
CollabWeight == 4

\* cosine_similarity(row, matrix).flatten() of rows of length 1, in units
\* of 1/SimScale, rounded down
CosineSimilarity(row, matrix) ==
    [j \in 1..Len(matrix) |-> Dot(row, matrix[j]) \div SimScale]

SeqMin(v) == CHOOSE x \in {v[i] : i \in 1..Len(v)} : \A j \in 1..Len(v) : x <= v[j]
SeqMax(v) == CHOOSE x \in {v[i] : i \in 1..Len(v)} : \A j \in 1..Len(v) : x >= v[j]

\* MinMaxNormalize without the shift by the minimum
MinMaxNoShift(v, unit) ==
    The({[i \in 1..Len(w) |->
            [num |-> w[i] * EpsDen,
             den |-> (SeqMax(w) - SeqMin(w)) * EpsDen + unit]] : w \in {v}})

\* (v - v.min()) / (v.max() - v.min() + 1e-6) as exact fractions num/den;
\* the entries of v count units of 1/unit
MinMaxNormalize(v, unit) ==
    The({[i \in 1..Len(w) |->
            [num |-> (w[i] - SeqMin(w)) * EpsDen,
             den |-> (SeqMax(w) - SeqMin(w)) * EpsDen + unit]] : w \in {v}})

\* 0.6 * c + 0.4 * k for c = c.num/c.den and k = k.num/k.den is
\* (6 * c.num * k.den + 4 * k.num * c.den) / (10 * c.den * k.den).  All entries
\* of one query share c.den and k.den, so the numerator orders the scores.
\* It equals EpsDen * (hi * EpsDen + lo) with 0 <= lo < EpsDen; the two
\* digits are kept apart because the product exceeds 32 bits.
Combine(c, k) ==
    LET cn == c.num \div EpsDen
        kn == k.num \div EpsDen
    IN [hi |-> ContentWeight * cn * (k.den \div EpsDen)
               + CollabWeight * kn * (c.den \div EpsDen),
        lo |-> ContentWeight * cn * (k.den % EpsDen)
               + CollabWeight * kn * (c.den % EpsDen)]

ScoreLeq(a, b) == a.hi < b.hi \/ (a.hi = b.hi /\ a.lo <= b.lo)
ScoreLess(a, b) == ~ScoreLeq(b, a)

\* np.argsort(scores): an ascending order of the row indices; the order of
\* equal scores is whatever the sort leaves
IsArgsort(order, scores) ==
    \A a, b \in 1..Len(scores) :
        a < b => ScoreLeq(scores[order[a]], scores[order[b]])

\* TopSlice without the reversal [::-1]
TopSliceAscending(order, n, top_n) ==
    LET start == IF n - top_n - 1 > 0 THEN n - top_n - 1 ELSE 0
    IN [k \in 1..(n - 1 - start) |-> order[start + k]]

\* order[-top_n-1:-1][::-1]: the last top_n + 1 positions (or all of them)
\* but the very last, highest first
TopSlice(order, n, top_n) ==
    LET start == IF n - top_n - 1 > 0 THEN n - top_n - 1 ELSE 0
    IN [k \in 1..(n - 1 - start) |-> order[n - k]]

\* the outcome of a query that raises
Raised(kind, name, top_n) ==
    [kind |-> kind, name |-> name, top_n |-> top_n, recs |-> <<>>,
     content_sim |-> <<>>, collab_sim |-> <<>>]

\* NotFound with a message that does not name the identifier
NotFoundUnnamed(researcher_name, top_n) ==
    Raised("ValueError: not found", <<>>, top_n)

\* raise ValueError(f"Researcher {researcher_name} not found in database")
NotFound(researcher_name, top_n) ==
    Raised("ValueError: not found", researcher_name, top_n)

\* Failure with an unbuilt matrix reported as "not found"
FailureAsNotFound(researcher_name) ==
    IF \/ researcher_name \notin DOMAIN researcher_ids
       \/ tfidf_matrix = None
       \/ coauthor_matrix = None
    THEN "ValueError: not found"
    ELSE IF \/ researcher_ids[researcher_name] > Len(tfidf_matrix)
            \/ researcher_ids[researcher_name] > Len(coauthor_matrix)
    THEN "IndexError"
    ELSE IF Len(tfidf_matrix) # Len(coauthor_matrix)
    THEN "ValueError: broadcast"
    ELSE "none"

\* The exception raised before the scores are combined, if any, in the order
\* of the statements: the lookup of the name, the row of tfidf_matrix, the
\* row of coauthor_matrix, the sum of two arrays of different lengths.
Failure(researcher_name) ==
    IF researcher_name \notin DOMAIN researcher_ids
    THEN "ValueError: not found"
    ELSE IF tfidf_matrix = None THEN "TypeError"
    ELSE IF researcher_ids[researcher_name] > Len(tfidf_matrix) THEN "IndexError"
    ELSE IF coauthor_matrix = None THEN "TypeError"
    ELSE IF researcher_ids[researcher_name] > Len(coauthor_matrix) THEN "IndexError"
    ELSE IF Len(tfidf_matrix) # Len(coauthor_matrix) THEN "ValueError: broadcast"
    ELSE "none"

\* KeepOthers without the test
KeepAll(top_indices, researcher_idx) == top_indices

\* for idx in top_indices: if idx != researcher_idx
KeepOthers(top_indices, researcher_idx) ==
    SelectSeq(top_indices, LAMBDA idx : idx # researcher_idx)

recommend_collaborators(researcher_name, top_n) ==
    /\ UNCHANGED <<researchers, publications, coauthor_matrix, tfidf_matrix,
                   researcher_ids>>
    /\ IF Failure(researcher_name) = "ValueError: not found"
       THEN ret' = NotFound(researcher_name, top_n)
       ELSE IF Failure(researcher_name) # "none"
       THEN ret' = Raised(Failure(researcher_name), researcher_name, top_n)
       ELSE \E researcher_idx \in {researcher_ids[researcher_name]} :
            \E content_sim \in
                  {MinMaxNormalize(CosineSimilarity(tfidf_matrix[researcher_idx],
                                                    tfidf_matrix), SimScale)},
               collab_sim \in
                  {MinMaxNormalize(coauthor_matrix[researcher_idx], 1)} :
            \E combined_scores \in
                  {[i \in 1..Len(content_sim) |->
                      Combine(content_sim[i], collab_sim[i])]} :
            \E order \in Permutations(1..Len(combined_scores)) :
               /\ IsArgsort(order, combined_scores)
               /\ \E kept \in
                     {KeepOthers(TopSlice(order, Len(order), top_n),
                                 researcher_idx)} :
                    IF \E k \in 1..Len(kept) : kept[k] > Len(researchers)
                    THEN \* self.researchers.iloc[idx]
                         ret' = Raised("IndexError", researcher_name, top_n)
                    ELSE ret' =
                          [kind |-> "list", name |-> researcher_name,
                           top_n |-> top_n,
                           recs |-> [k \in 1..Len(kept) |->
                                      [idx |-> kept[k],
                                       name |-> researchers[kept[k]].name,
                                       score |-> combined_scores[kept[k]]]],
                           content_sim |-> content_sim,
                           collab_sim |-> collab_sim]

----------------------------------------------------------------------------
(* Specifications *)

\* Every ordering of the four operations from construction on, data reloaded
\* at any time, over the tables of the example and a two-row table.
LifecycleResearcherTables == {ExampleResearchers, PairResearchers}
LifecyclePublicationTables == {<<>>, ExamplePublications, <<RepeatedAuthor>>}

Recommend ==
    \E q \in QueryNames, top_n \in 1..MaxTopN : recommend_collaborators(q, top_n)

Next ==
    \/ \E rt \in LifecycleResearcherTables, pt \in LifecyclePublicationTables :
          load_data(rt, pt)
    \/ build_coauthor_matrix
    \/ build_content_profiles
    \/ Recommend

Spec == Init /\ [][Next]_vars

\* One data load of any of the tables, then builds and queries in any order.
InitLoaded ==
    \E rt \in ResearcherTables, pt \in PublicationTables :
        /\ researchers = rt
        /\ publications = pt
        /\ researcher_ids = IdMapping(rt)
        /\ coauthor_matrix = None
        /\ tfidf_matrix = None
        /\ ret = Returned("None")

NextLoaded ==
    \/ build_coauthor_matrix
    \/ build_content_profiles
    \/ Recommend

SpecLoaded == InitLoaded /\ [][NextLoaded]_vars

----------------------------------------------------------------------------
(* Properties *)

\* the row of the researcher the last query named
QueryIdx == researcher_ids[ret.name]

\* the combined score of row j in the last query
ScoreOf(j) == Combine(ret.content_sim[j], ret.collab_sim[j])

\* the rows of the last returned list
ReturnedRows == {ret.recs[k].idx : k \in 1..Len(ret.recs)}

AllEqual(v) == \A i, j \in 1..Len(v) : v[i] = v[j]

InUnitInterval(x) == x.den > 0 /\ 0 <= x.num /\ x.num <= x.den

\* the names listed in the author field of a publication
AuthorSet(pub) ==
    {Strip(Split(pub.authors)[k]) : k \in 1..Len(Split(pub.authors))}

\* C1: a returned list holds exactly the min(top_n, R - 1) researchers other
\* than the query researcher with the highest combined scores: it has that
\* many distinct entries, none is the query researcher, and no researcher
\* left out scores strictly higher than one returned.
C1_TopNOthers ==
    ret.kind = "list" =>
        LET R == Len(researchers)
        IN /\ Len(ret.recs) = (IF ret.top_n < R - 1 THEN ret.top_n ELSE R - 1)
           /\ Cardinality(ReturnedRows) = Len(ret.recs)
           /\ QueryIdx \notin ReturnedRows
           /\ \A j \in (1..R) \ (ReturnedRows \cup {QueryIdx}) :
                \A k \in 1..Len(ret.recs) :
                    ScoreLeq(ScoreOf(j), ret.recs[k].score)

\* C2: no entry of a returned list is the query researcher, whatever top_n.
C2_QueryExcluded ==
    ret.kind = "list" =>
        \A k \in 1..Len(ret.recs) :
            ret.recs[k].idx # QueryIdx /\ ret.recs[k].name # ret.name

\* a query with top_n >= R whose slice held the query researcher's own row
C2_Witness ==
    /\ ret.kind = "list"
    /\ ret.top_n >= Len(researchers)
    /\ Len(researchers) = 3
    /\ Len(ret.recs) = 1

\* C3: after build_coauthor_matrix the weight of two different researchers
\* is the number of publications listing both, a publication counting once
\* even when it lists a name twice, unresolved names counting for nothing.
C3_WeightIsSharedPublications ==
    coauthor_matrix # None =>
        \A a, b \in DOMAIN researcher_ids :
            a # b =>
                coauthor_matrix[researcher_ids[a]][researcher_ids[b]] =
                    Cardinality({p \in 1..Len(publications) :
                                   /\ a \in AuthorSet(publications[p])
                                   /\ b \in AuthorSet(publications[p])})

\* C4: after build_coauthor_matrix no researcher has a weight to itself.
C4_NoSelfLoops ==
    coauthor_matrix # None =>
        \A i \in 1..Len(coauthor_matrix) : coauthor_matrix[i][i] = 0

\* C5: the co-authorship matrix is symmetric after every build.
C5_Symmetric ==
    coauthor_matrix # None =>
        \A i, j \in 1..Len(coauthor_matrix) :
            coauthor_matrix[i][j] = coauthor_matrix[j][i]

\* a built matrix with a weight between two different researchers
C5_Witness ==
    /\ coauthor_matrix # None
    /\ \E i, j \in 1..Len(coauthor_matrix) : i # j /\ coauthor_matrix[i][j] > 0

C7_NotFoundLeavesModel ==
    [][ ret'.top_n > 0 =>
          /\ (ret'.name \notin DOMAIN researcher_ids)
                <=> (ret'.kind = "ValueError: not found")
          /\ ret'.kind = "ValueError: not found" =>
                /\ ret'.name \in QueryNames
                /\ ret'.recs = <<>>
                /\ UNCHANGED <<researchers, publications, coauthor_matrix,
                               tfidf_matrix, researcher_ids>> ]_vars

\* a failed lookup on a fully built model
C7_Witness ==
    /\ ret.kind = "ValueError: not found"
    /\ ret.name \notin DOMAIN researcher_ids
    /\ coauthor_matrix # None
    /\ tfidf_matrix # None

\* C8: after build_content_profiles a term has weight in researcher i's row
\* exactly when it is one of i's interests or a keyword of a publication
\* whose author list holds i's whole name.
C8_WholeNameProfiles ==
    tfidf_matrix # None =>
        \A i \in 1..Len(researchers) : \A k \in 1..Len(TermList) :
            (tfidf_matrix[i][k] > 0) <=>
                \/ TermList[k] \in Terms(researchers[i].research_interests)
                \/ \E p \in 1..Len(publications) :
                      /\ researchers[i].name \in AuthorSet(publications[p])
                      /\ TermList[k] \in Terms(publications[p].keywords)

\* C9: a query for a loaded researcher on a built model raises nothing;
\* every normalized content and collaboration value of it lies in [0, 1]
\* with a nonzero denominator, and a vector of equal inputs normalizes to
\* zeros.
C9_NormalizedInUnitInterval ==
    ( /\ ret.top_n > 0
      /\ ret.name \in DOMAIN researcher_ids
      /\ coauthor_matrix # None
      /\ tfidf_matrix # None )
    => /\ ret.kind = "list"
       /\ LET content == CosineSimilarity(tfidf_matrix[QueryIdx], tfidf_matrix)
              collab == coauthor_matrix[QueryIdx]
          IN /\ Len(ret.content_sim) = Len(content)
             /\ Len(ret.collab_sim) = Len(collab)
             /\ \A i \in 1..Len(content) : InUnitInterval(ret.content_sim[i])
             /\ \A i \in 1..Len(collab) : InUnitInterval(ret.collab_sim[i])
             /\ AllEqual(content) =>
                  \A i \in 1..Len(content) : ret.content_sim[i].num = 0
             /\ AllEqual(collab) =>
                  \A i \in 1..Len(collab) : ret.collab_sim[i].num = 0

\* a query whose similarities are all equal and whose researcher has no
\* collaboration at all
C9_Witness ==
    /\ ret.kind = "list"
    /\ AllEqual(CosineSimilarity(tfidf_matrix[QueryIdx], tfidf_matrix))
    /\ \A j \in 1..Len(coauthor_matrix) : coauthor_matrix[QueryIdx][j] = 0

\* C10: a returned list is in descending order of combined score, each
\* entry carrying the combined score of its own row.
C10_SortedDescending ==
    ret.kind = "list" =>
        /\ \A k \in 1..Len(ret.recs) :
              ret.recs[k].score = ScoreOf(ret.recs[k].idx)
        /\ \A k \in 1..(Len(ret.recs) - 1) :
              ScoreLeq(ret.recs[k + 1].score, ret.recs[k].score)

\* a list of two entries with different scores
C10_Witness ==
    /\ ret.kind = "list"
    /\ Len(ret.recs) = 2
    /\ ScoreLess(ret.recs[2].score, ret.recs[1].score)

====
